---- MODULE Spec2Model ----
(***************************************************************************)
(* HtmlTestReport (src/HtmlTestReport/main.py): the report data model      *)
(* (TestCase, TestSuite, TestResult), the renderer of HTMLTestRunner and   *)
(* the asset copy of generateReport.                                       *)
(*                                                                         *)
(* Text is a sequence of one-character strings.  A template substitution   *)
(* (TMPL % dict(...)) is the record of the values substituted, each value  *)
(* formatted as '%s' formats it.  Python's copy.copy is a shallow copy: a  *)
(* copied TestSuite keeps a reference to the same TestCases list, so the   *)
(* lists live in a heap and a suite holds a reference to one of them.      *)
(***************************************************************************)
EXTENDS Integers, Sequences, FiniteSets, TLC

VARIABLES suites, heap, result, runner, assets, output, raised, renders, caller

vars == <<suites, heap, result, runner, assets, output, raised, renders, caller>>

(***************************************************************************)
(* Bounds of the model.                                                    *)
(***************************************************************************)
MaxCases == 3
MaxSuites == 2
MaxRender == 2
MaxTextCases == 1
MaxTextSuites == 1
MaxCallerCases == 2

\* The caller's TestSuite object; it owns the list made by its constructor.
SuiteObjs == {"s1"}

(***************************************************************************)
(* Text and formatting.                                                    *)
(***************************************************************************)
\* Python's None, and the empty string.
None == <<"None">>
EmptyStr == <<>>

Digit(d) == CASE d = 0 -> "0" [] d = 1 -> "1" [] d = 2 -> "2" [] d = 3 -> "3"
              [] d = 4 -> "4" [] d = 5 -> "5" [] d = 6 -> "6" [] d = 7 -> "7"
              [] d = 8 -> "8" [] d = 9 -> "9"

\* str(n) of a non-negative int: its decimal digits.
RECURSIVE Str(_)
Str(n) == IF n < 10 THEN <<Digit(n)>> ELSE Str(n \div 10) \o <<Digit(n % 10)>>

\* '%s' % x for a text or None.
Fmt(x) == IF x = None THEN <<"N", "o", "n", "e">> ELSE x

\* str.replace(ch, rep) for a one-character ch.
RECURSIVE Replace(_, _, _)
Replace(s, ch, rep) ==
    IF s = <<>> THEN <<>>
    ELSE (IF Head(s) = ch THEN rep ELSE <<Head(s)>>) \o Replace(Tail(s), ch, rep)

\* xml.sax.saxutils.escape: '&' first, then '>', then '<'.
escape(data) ==
    Replace(Replace(Replace(data, "&", <<"&", "a", "m", "p", ";">>),
                    ">", <<"&", "g", "t", ";">>),
            "<", <<"&", "l", "t", ";">>)

\* ' '.join(parts)
RECURSIVE Join(_)
Join(parts) ==
    IF parts = <<>> THEN <<>>
    ELSE IF Len(parts) = 1 THEN parts[1]
    ELSE parts[1] \o <<" ">> \o Join(Tail(parts))

(***************************************************************************)
(* TestCase, TestSuite, TestResult.                                        *)
(***************************************************************************)
TestCaseStatus == {"UNKNOWN", "SUCCESS", "FAILURE", "ERROR"}

\* TestCase(): the fields after construction.
NewTestCase ==
    [CaseName |-> None, CaseStatus |-> "UNKNOWN", CaseDescription |-> EmptyStr,
     ErrorStackTrace |-> EmptyStr, tid |-> EmptyStr]

setCaseName(c, p_CaseName) == [c EXCEPT !.CaseName = p_CaseName]
setCaseStatus(c, p_CaseStatus) == [c EXCEPT !.CaseStatus = p_CaseStatus]
setErrorStackTrace(c, p_Trace) == [c EXCEPT !.ErrorStackTrace = p_Trace]
setTID(c, p_TID) == [c EXCEPT !.tid = p_TID]

\* TestSuite() whose TestCases is the list at reference ref.
NewTestSuite(ref) ==
    [SuiteName |-> None, TestCases |-> ref, SuiteDescription |-> EmptyStr,
     PassedCaseCount |-> 0, FailedCaseCount |-> 0, ErrorCaseCount |-> 0,
     sid |-> 0, max_tid |-> 1]

setSID(s, p_SID) == [s EXCEPT !.sid = p_SID]

\* TestResult()
NewTestResult ==
    [TestResults |-> <<>>, success_count |-> 0, failure_count |-> 0,
     error_count |-> 0, max_sid |-> 1]

\* addTestCase, the three counter updates.
CountCaseNoError(s, p_TestCase) ==
    [s EXCEPT
       !.PassedCaseCount = IF p_TestCase.CaseStatus = "SUCCESS" THEN @ + 1 ELSE @,
       !.FailedCaseCount = IF p_TestCase.CaseStatus = "FAILURE" THEN @ + 1 ELSE @]

CountCase(s, p_TestCase) ==
    [s EXCEPT
       !.PassedCaseCount = IF p_TestCase.CaseStatus = "SUCCESS" THEN @ + 1 ELSE @,
       !.FailedCaseCount = IF p_TestCase.CaseStatus = "FAILURE" THEN @ + 1 ELSE @,
       !.ErrorCaseCount = IF p_TestCase.CaseStatus = "ERROR" THEN @ + 1 ELSE @]

\* addTestCase, the id given to the stored copy of the case.
NextTIDFromZero(s) == s.max_tid - 1

NextTID(s) == s.max_tid

\* addSuite, the update of the global counters.
CountSuiteErrorAsFailure(r, p_TestSuite) ==
    [r EXCEPT !.success_count = @ + p_TestSuite.PassedCaseCount,
              !.failure_count = @ + p_TestSuite.FailedCaseCount
                                  + p_TestSuite.ErrorCaseCount]

CountSuite(r, p_TestSuite) ==
    [r EXCEPT !.success_count = @ + p_TestSuite.PassedCaseCount,
              !.failure_count = @ + p_TestSuite.FailedCaseCount,
              !.error_count = @ + p_TestSuite.ErrorCaseCount]

\* copy.copy(obj): a new object with the field values of obj.  isNew tells
\* whether the object returned is another object than obj.
copy_none(obj) == [fields |-> obj, isNew |-> FALSE]

copy_copy(obj) == [fields |-> obj, isNew |-> TRUE]

\* The TestCase object the caller keeps, and the places (list, index) of the
\* lists that hold this very object rather than a copy of it.
NewCaller == [TestCase |-> NewTestCase, aliases |-> {}]

\* A write of an attribute of the caller's object, seen through every place
\* that holds it.
WriteAliased(h, aliases, attr, value) ==
    [l \in DOMAIN h |->
       [k \in DOMAIN h[l] |->
          IF <<l, k>> \in aliases THEN [h[l][k] EXCEPT ![attr] = value] ELSE h[l][k]]]

\* The cases a stored or caller-held suite object sees through its reference.
CasesOf(s) == heap[s.TestCases]

RECURSIVE SumLen(_)
SumLen(S) ==
    IF S = {} THEN 0
    ELSE LET x == CHOOSE y \in S : TRUE IN Len(heap[x]) + SumLen(S \ {x})

TotalCases == SumLen(SuiteObjs)

(***************************************************************************)
(* HTMLTestRunner: the renderer.                                           *)
(***************************************************************************)
\* The literals of the source, transliterated: the attribute names and the
\* status words are Chinese text in main.py.
AttrStartTime == <<"start_time">>
AttrDuration == <<"duration">>
AttrStatus == <<"status">>
WordPass == <<"passed">>
WordFail == <<"failed">>
WordError == <<"errored">>

\* HTMLTestRunner(title, description): startTime and stopTime are read from
\* the clock by the constructor; str() of them is the text kept here.
NewRunner(title, description) ==
    [title |-> title, description |-> description,
     startTime |-> <<"2", "0", "2", "0">>, duration |-> <<"0">>]

\* text[:n]
Prefix(text, n) == SubSeq(text, 1, IF Len(text) < n THEN Len(text) ELSE n)

\* getReportAttributes, the status list joined, or 'none'.
StatusTextFailedFirst(r) ==
    LET status ==
          (IF r.failure_count # 0 THEN <<WordFail \o <<" ">> \o Str(r.failure_count)>> ELSE <<>>)
          \o (IF r.success_count # 0 THEN <<WordPass \o <<" ">> \o Str(r.success_count)>> ELSE <<>>)
          \o (IF r.error_count # 0 THEN <<WordError \o <<" ">> \o Str(r.error_count)>> ELSE <<>>)
    IN IF status # <<>> THEN Join(status) ELSE <<"n", "o", "n", "e">>

StatusText(r) ==
    LET status ==
          (IF r.success_count # 0 THEN <<WordPass \o <<" ">> \o Str(r.success_count)>> ELSE <<>>)
          \o (IF r.failure_count # 0 THEN <<WordFail \o <<" ">> \o Str(r.failure_count)>> ELSE <<>>)
          \o (IF r.error_count # 0 THEN <<WordError \o <<" ">> \o Str(r.error_count)>> ELSE <<>>)
    IN IF status # <<>> THEN Join(status) ELSE <<"n", "o", "n", "e">>

getReportAttributes(run, r) ==
    << <<AttrStartTime, Prefix(run.startTime, 19)>>,
       <<AttrDuration, run.duration>>,
       <<AttrStatus, StatusText(r)>> >>

generate_heading(run, report_attrs) ==
    [title |-> escape(run.title),
     parameters |-> [i \in DOMAIN report_attrs |->
                       [name |-> escape(report_attrs[i][1]),
                        value |-> escape(report_attrs[i][2])]],
     description |-> escape(run.description)]

\* _generate_report_test, the id of the detail row.
TestRowIdAllPass(cid, p_TestCase) ==
    <<"p", "t">> \o Str(cid) \o <<".">> \o Str(p_TestCase.tid)

TestRowId(cid, p_TestCase) ==
    (IF p_TestCase.CaseStatus = "SUCCESS" THEN <<"p", "t">> ELSE <<"f", "t">>)
    \o Str(cid) \o <<".">> \o Str(p_TestCase.tid)

generate_report_test(cid, p_TestCase) ==
    LET tid == TestRowId(cid, p_TestCase)
        m_Status == IF p_TestCase.CaseStatus = "SUCCESS" THEN WordPass
                    ELSE IF p_TestCase.CaseStatus = "FAILURE" THEN WordFail
                    ELSE WordError
        desc == IF Len(p_TestCase.CaseDescription) = 0 THEN p_TestCase.CaseName
                ELSE p_TestCase.CaseDescription
        script == [id |-> tid, output |-> escape(p_TestCase.ErrorStackTrace)]
        m_CSS_CaseStyle == IF p_TestCase.CaseStatus = "SUCCESS" THEN "none"
                           ELSE IF p_TestCase.CaseStatus = "FAILURE" THEN "failCase"
                           ELSE "errorCase"
    IN [tmpl |-> "REPORT_TEST_WITH_OUTPUT_TMPL", tid |-> tid, Class |-> "hiddenRow",
        style |-> m_CSS_CaseStyle, desc |-> Fmt(desc), script |-> script,
        status |-> m_Status]

\* _generate_report, the summary row of one suite.
ClassRowFailFirst(m_TestSuite) ==
    LET desc == IF Len(m_TestSuite.SuiteDescription) = 0 THEN m_TestSuite.SuiteName
                ELSE m_TestSuite.SuiteDescription
        m_CSSStype == IF m_TestSuite.FailedCaseCount > 0 THEN "failClass"
                      ELSE IF m_TestSuite.ErrorCaseCount > 0 THEN "errorClass"
                      ELSE "passClass"
        m_TotalCaseCount == m_TestSuite.PassedCaseCount + m_TestSuite.FailedCaseCount
                            + m_TestSuite.ErrorCaseCount
    IN [tmpl |-> "REPORT_CLASS_TMPL", style |-> m_CSSStype, desc |-> Fmt(desc),
        count |-> Str(m_TotalCaseCount), Pass |-> Str(m_TestSuite.PassedCaseCount),
        fail |-> Str(m_TestSuite.FailedCaseCount),
        error |-> Str(m_TestSuite.ErrorCaseCount),
        cid |-> <<"c">> \o Str(m_TestSuite.sid)]

ClassRow(m_TestSuite) ==
    LET desc == IF Len(m_TestSuite.SuiteDescription) = 0 THEN m_TestSuite.SuiteName
                ELSE m_TestSuite.SuiteDescription
        m_CSSStype == IF m_TestSuite.ErrorCaseCount > 0 THEN "errorClass"
                      ELSE IF m_TestSuite.FailedCaseCount > 0 THEN "failClass"
                      ELSE "passClass"
        m_TotalCaseCount == m_TestSuite.PassedCaseCount + m_TestSuite.FailedCaseCount
                            + m_TestSuite.ErrorCaseCount
    IN [tmpl |-> "REPORT_CLASS_TMPL", style |-> m_CSSStype, desc |-> Fmt(desc),
        count |-> Str(m_TotalCaseCount), Pass |-> Str(m_TestSuite.PassedCaseCount),
        fail |-> Str(m_TestSuite.FailedCaseCount),
        error |-> Str(m_TestSuite.ErrorCaseCount),
        cid |-> <<"c">> \o Str(m_TestSuite.sid)]

\* _generate_report, the renumbering of the stored suites: nPos = 1, 2, ...
SetSIDsFromMaxSid(r) ==
    [r EXCEPT !.TestResults = [k \in DOMAIN @ |-> setSID(@[k], r.max_sid + k - 1)],
              !.max_sid = @ + Len(r.TestResults)]

SetSIDsFromZero(r) ==
    [r EXCEPT !.TestResults = [k \in DOMAIN @ |-> setSID(@[k], k - 1)]]

SetSIDs(r) ==
    [r EXCEPT !.TestResults = [k \in DOMAIN @ |-> setSID(@[k], k)]]

\* _generate_report, the rows of one suite: its summary row, then one detail
\* row for each case of its list.
SuiteRows(m_TestSuite, cases) ==
    <<ClassRow(m_TestSuite)>>
    \o [k \in DOMAIN cases |-> generate_report_test(m_TestSuite.sid, cases[k])]

RECURSIVE RowsFrom(_, _, _)
RowsFrom(r, h, k) ==
    IF k > Len(r.TestResults) THEN <<>>
    ELSE SuiteRows(r.TestResults[k], h[r.TestResults[k].TestCases])
         \o RowsFrom(r, h, k + 1)

\* _generate_report on the result as renumbered, with the lists of heap h.
generate_report(r, h) ==
    [test_list |-> RowsFrom(r, h, 1),
     count |-> Str(r.success_count + r.failure_count + r.error_count),
     Pass |-> Str(r.success_count), fail |-> Str(r.failure_count),
     error |-> Str(r.error_count)]

generate_chart(r) ==
    [Pass |-> Str(r.success_count), fail |-> Str(r.failure_count),
     error |-> Str(r.error_count)]

\* generateReport, the document: HTML_TMPL % dict(...).
Document(run, r, h) ==
    [title |-> escape(run.title),
     generator |-> "HTMLTestRunner",
     stylesheet |-> "STYLESHEET_TMPL",
     heading |-> generate_heading(run, getReportAttributes(run, r)),
     report |-> generate_report(r, h),
     ending |-> "ENDING_TMPL",
     chart_script |-> generate_chart(r)]

(***************************************************************************)
(* generateReport, the copy of the css and js directories.  A directory is *)
(* absent, or present with some content.                                   *)
(***************************************************************************)
Absent == "absent"
Empty == "empty"
Canonical == "canonical"
Custom == "custom"

\* dirname(__file__), and a directory that is not it.
PackageDir == "package"
OutputDirs == {PackageDir, "elsewhere"}

NoError == "none"
FileExistsError == "FileExistsError"

exists(d) == d # Absent
rmtree(d) == Absent

\* os.makedirs(d), exist_ok false: the directory after it, and what it raises.
makedirs(d) ==
    IF exists(d) THEN [dir |-> d, err |-> FileExistsError]
    ELSE [dir |-> Empty, err |-> NoError]

\* shutil.copytree(src, dst), dirs_exist_ok false: it makes dst itself.
copytree(src, dst) ==
    IF exists(dst) THEN [dir |-> dst, err |-> FileExistsError]
    ELSE [dir |-> src, err |-> NoError]

\* One of the two blocks: if exists: rmtree; makedirs; copytree.
SyncDirRemoveOnly(dst) ==
    LET d1 == IF exists(dst) THEN rmtree(dst) ELSE dst
    IN copytree(Canonical, d1)

SyncDir(dst) ==
    LET d1 == IF exists(dst) THEN rmtree(dst) ELSE dst
        made == makedirs(d1)
    IN IF made.err # NoError THEN made ELSE copytree(Canonical, made.dir)

\* The two blocks in order; an exception of the first ends the call.
CopyAssets(p_dir, a) ==
    IF p_dir = PackageDir THEN [assets |-> a, err |-> NoError]
    ELSE LET css == SyncDir(a.css)
         IN IF css.err # NoError
            THEN [assets |-> [a EXCEPT !.css = css.dir], err |-> css.err]
            ELSE LET js == SyncDir(a.js)
                 IN [assets |-> [css |-> css.dir, js |-> js.dir], err |-> js.err]

(***************************************************************************)
(* The operations.                                                         *)
(***************************************************************************)
\* What a caller can read of the TestResult: its counters and, for each
\* stored suite, its fields and the cases of its list.
ResultView(r, h) ==
    [success_count |-> r.success_count, failure_count |-> r.failure_count,
     error_count |-> r.error_count,
     suites |-> [k \in DOMAIN r.TestResults |->
                   [suite |-> r.TestResults[k],
                    cases |-> h[r.TestResults[k].TestCases]]]]

setSuiteName(s, p_SuiteName) ==
    /\ suites' = [suites EXCEPT ![s].SuiteName = p_SuiteName]
    /\ UNCHANGED <<heap, result, runner, assets, output, raised, renders, caller>>

setSuiteDescription(s, p_SuiteDescription) ==
    /\ suites' = [suites EXCEPT ![s].SuiteDescription = p_SuiteDescription]
    /\ UNCHANGED <<heap, result, runner, assets, output, raised, renders, caller>>

\* TestSuite.addTestCase on the caller's suite s.
addTestCase(s, p_TestCase) ==
    LET m_TestCase == setTID(p_TestCase, NextTID(suites[s]))
    IN /\ suites' = [suites EXCEPT
                       ![s] = [CountCase(@, p_TestCase) EXCEPT !.max_tid = @ + 1]]
       /\ heap' = [heap EXCEPT ![suites[s].TestCases] = Append(@, m_TestCase)]
       /\ renders' = 0
       /\ UNCHANGED <<result, runner, assets, output, raised, caller>>

\* TestSuite.addTestCase(c) on the caller's suite s, c the object the caller
\* keeps: setTID is called on the copy.
addCallerCase(s) ==
    LET p_TestCase == caller.TestCase
        copied == copy_copy(p_TestCase)
        ref == suites[s].TestCases
        m_TestCase == setTID(copied.fields, NextTID(suites[s]))
        h == IF copied.isNew THEN heap
             ELSE WriteAliased(heap, caller.aliases, "tid", NextTID(suites[s]))
    IN /\ suites' = [suites EXCEPT
                       ![s] = [CountCase(@, p_TestCase) EXCEPT !.max_tid = @ + 1]]
       /\ heap' = [h EXCEPT ![ref] = Append(@, m_TestCase)]
       /\ caller' = IF copied.isNew THEN caller
                    ELSE [TestCase |-> m_TestCase,
                          aliases |-> caller.aliases \cup {<<ref, Len(heap[ref]) + 1>>}]
       /\ renders' = 0
       /\ UNCHANGED <<result, runner, assets, output, raised>>

\* The setters of TestCase, called on the object the caller keeps.
callerSetCaseName(p_CaseName) ==
    /\ caller' = [caller EXCEPT !.TestCase = setCaseName(@, p_CaseName)]
    /\ heap' = WriteAliased(heap, caller.aliases, "CaseName", p_CaseName)
    /\ UNCHANGED <<suites, result, runner, assets, output, raised, renders>>

callerSetCaseStatus(p_CaseStatus) ==
    /\ caller' = [caller EXCEPT !.TestCase = setCaseStatus(@, p_CaseStatus)]
    /\ heap' = WriteAliased(heap, caller.aliases, "CaseStatus", p_CaseStatus)
    /\ UNCHANGED <<suites, result, runner, assets, output, raised, renders>>

callerSetErrorStackTrace(p_ErrorStackTrace) ==
    /\ caller' = [caller EXCEPT !.TestCase = setErrorStackTrace(@, p_ErrorStackTrace)]
    /\ heap' = WriteAliased(heap, caller.aliases, "ErrorStackTrace", p_ErrorStackTrace)
    /\ UNCHANGED <<suites, result, runner, assets, output, raised, renders>>

\* TestResult.addSuite of the caller's suite s: the copy is shallow, it keeps
\* the reference to the list of s.
addSuite(s) ==
    LET m_TestSuite == setSID(suites[s], result.max_sid)
    IN /\ result' = [CountSuite(result, suites[s]) EXCEPT
                       !.max_sid = @ + 1,
                       !.TestResults = Append(@, m_TestSuite)]
       /\ renders' = 0
       /\ UNCHANGED <<suites, heap, runner, assets, output, raised, caller>>

\* HTMLTestRunner.generateReport with p_output in directory p_dir: the
\* document is rendered (the stored suites renumbered) and written, then the
\* css and js directories are copied beside it.
generateReport(p_dir) ==
    LET r == SetSIDs(result)
        copied == CopyAssets(p_dir, assets)
    IN /\ result' = r
       /\ output' = Document(runner, r, heap)
       /\ assets' = copied.assets
       /\ raised' = [dir |-> p_dir, err |-> copied.err]
       /\ renders' = renders + 1
       /\ UNCHANGED <<suites, heap, runner, caller>>

(***************************************************************************)
(* Spec: suites of plainly named cases of every status.                    *)
(***************************************************************************)
PlainName == <<"t">>

Cases == {setCaseStatus(setCaseName(NewTestCase, PlainName), st) : st \in TestCaseStatus}

InitObjects ==
    /\ suites = [s \in SuiteObjs |-> NewTestSuite(s)]
    /\ heap = [s \in SuiteObjs |-> <<>>]
    /\ result = NewTestResult
    /\ output = <<>>
    /\ raised = [dir |-> PackageDir, err |-> NoError]
    /\ renders = 0
    /\ caller = NewCaller

Init ==
    /\ InitObjects
    /\ runner = NewRunner(PlainName, PlainName)
    /\ assets = [css |-> Absent, js |-> Absent]

Next ==
    \/ \E s \in SuiteObjs, c \in Cases : TotalCases < MaxCases /\ addTestCase(s, c)
    \/ \E s \in SuiteObjs : Len(result.TestResults) < MaxSuites /\ addSuite(s)
    \/ renders < MaxRender /\ generateReport(PackageDir)

Spec == Init /\ [][Next]_vars

(***************************************************************************)
(* SpecText: one suite, names and texts with markup characters.            *)
(***************************************************************************)
Texts == {<<"a">>, <<"<", "&", ">">>}

TextCases ==
    {setErrorStackTrace(setCaseStatus(setCaseName(NewTestCase, n), st), e) :
        n \in Texts, st \in {"SUCCESS", "FAILURE"}, e \in Texts \cup {EmptyStr}}

InitText ==
    /\ InitObjects
    /\ \E title \in Texts, description \in Texts : runner = NewRunner(title, description)
    /\ assets \in [css : {Absent, Custom}, js : {Absent, Custom}]

NextText ==
    \/ \E n \in Texts : setSuiteName("s1", n)
    \/ \E d \in Texts : setSuiteDescription("s1", d)
    \/ \E c \in TextCases : TotalCases < MaxTextCases /\ addTestCase("s1", c)
    \/ Len(result.TestResults) < MaxTextSuites /\ addSuite("s1")
    \/ \E d \in OutputDirs : renders < MaxRender /\ generateReport(d)

SpecText == InitText /\ [][NextText]_vars

(***************************************************************************)
(* SpecCase: one TestCase object that the caller keeps, sets and adds.     *)
(***************************************************************************)
CallerNames == {PlainName, <<"u">>}
CallerTraces == {EmptyStr, <<"e">>}

InitCase ==
    /\ InitObjects
    /\ runner = NewRunner(PlainName, PlainName)
    /\ assets = [css |-> Absent, js |-> Absent]

NextCase ==
    \/ \E n \in CallerNames : callerSetCaseName(n)
    \/ \E st \in TestCaseStatus : callerSetCaseStatus(st)
    \/ \E e \in CallerTraces : callerSetErrorStackTrace(e)
    \/ \E s \in SuiteObjs : TotalCases < MaxCallerCases /\ addCallerCase(s)

SpecCase == InitCase /\ [][NextCase]_vars

(***************************************************************************)
(* Definitions the properties share.                                       *)
(***************************************************************************)
\* The number of cases of a list that addTestCase classified.
Classified(cases) == Cardinality({k \in DOMAIN cases : cases[k].CaseStatus # "UNKNOWN"})

CaseCountSum(s) == s.PassedCaseCount + s.FailedCaseCount + s.ErrorCaseCount

RECURSIVE SumOver(_, _)
SumOver(seq, field) ==
    IF seq = <<>> THEN 0 ELSE Head(seq)[field] + SumOver(Tail(seq), field)

\* The stored suites of the TestResult.
Stored == result.TestResults

(***************************************************************************)
(* C1. After every addTestCase on a suite, PassedCaseCount +               *)
(* FailedCaseCount + ErrorCaseCount equals the number of cases in the      *)
(* suite's list.  (As stated, for cases of any status.)                    *)
(***************************************************************************)
C1_CountsEqualListLength ==
    \A s \in SuiteObjs : CaseCountSum(suites[s]) = Len(CasesOf(suites[s]))

\* C1 as amended: the sum of the three counters of a suite equals the number
\* of cases in its list whose status is not UNKNOWN.
C1_CountsEqualClassifiedCases ==
    \A s \in SuiteObjs : CaseCountSum(suites[s]) = Classified(CasesOf(suites[s]))

\* A suite holding an UNKNOWN case beside classified ones.
C1_Witness ==
    \E s \in SuiteObjs :
        /\ Len(CasesOf(suites[s])) = MaxCases
        /\ \E k \in DOMAIN CasesOf(suites[s]) : CasesOf(suites[s])[k].CaseStatus = "UNKNOWN"
        /\ \E k \in DOMAIN CasesOf(suites[s]) : CasesOf(suites[s])[k].CaseStatus = "ERROR"

(***************************************************************************)
(* C2. After addSuite(s), a later addTestCase on s changes neither the     *)
(* counters of the TestResult nor the case list of the suite stored in it. *)
(***************************************************************************)
C2_SnapshotIsolation ==
    [][TotalCases' > TotalCases =>
         /\ result'.success_count = result.success_count
         /\ result'.failure_count = result.failure_count
         /\ result'.error_count = result.error_count
         /\ \A k \in DOMAIN Stored :
               heap'[Stored[k].TestCases] = heap[Stored[k].TestCases]]_vars

(***************************************************************************)
(* C3. After any interleaving of addTestCase and addSuite, each counter of *)
(* the TestResult equals the sum of the matching counter over the suites   *)
(* stored in it.                                                           *)
(***************************************************************************)
C3_GlobalCountsAreSums ==
    /\ result.success_count = SumOver(Stored, "PassedCaseCount")
    /\ result.failure_count = SumOver(Stored, "FailedCaseCount")
    /\ result.error_count = SumOver(Stored, "ErrorCaseCount")

\* The same suite stored twice, with an ERROR case added between the two
\* addSuite calls and a case added after the second.
C3_Witness ==
    /\ Len(Stored) = 2
    /\ Stored[1].TestCases = Stored[2].TestCases
    /\ Stored[1].ErrorCaseCount < Stored[2].ErrorCaseCount
    /\ Stored[1].PassedCaseCount > 0
    /\ Len(CasesOf(Stored[2])) > CaseCountSum(Stored[2])

\* The rows of the last document, and the index before the rows of the
\* stored suite at position S.
Rows == output.report.test_list

RECURSIVE Offset(_)
Offset(S) == IF S <= 1 THEN 0 ELSE Offset(S - 1) + 1 + Len(CasesOf(Stored[S - 1]))

StatusesOf(cases) == [k \in DOMAIN cases |-> cases[k].CaseStatus]

(***************************************************************************)
(* C4. The k-th case of a suite's list has id k, for the caller's suite    *)
(* and for every stored suite, and no step (addTestCase, addSuite,         *)
(* generateReport) changes the id of a case already in a list.             *)
(***************************************************************************)
C4_CaseIds ==
    /\ [](/\ \A s \in SuiteObjs :
               \A k \in DOMAIN CasesOf(suites[s]) : CasesOf(suites[s])[k].tid = k
          /\ \A i \in DOMAIN Stored :
               \A k \in DOMAIN CasesOf(Stored[i]) : CasesOf(Stored[i])[k].tid = k)
    /\ [][\A l \in DOMAIN heap : \A k \in DOMAIN heap[l] :
             /\ k \in DOMAIN heap'[l]
             /\ heap'[l][k].tid = heap[l][k].tid]_vars

\* A full list, part of it added after the suite was stored, then rendered.
C4_Witness ==
    /\ renders > 0
    /\ Len(Stored) = 2
    /\ Len(CasesOf(Stored[1])) = MaxCases
    /\ CaseCountSum(Stored[1]) = 1
    /\ CasesOf(Stored[1])[MaxCases].tid = MaxCases

(***************************************************************************)
(* C5. Every free text the renderer puts into the markup is escaped: in    *)
(* the title, the heading and the rows, '<' and '>' never occur and '&'    *)
(* occurs only as the start of &amp; &lt; or &gt;.                         *)
(***************************************************************************)
IsEntityAt(text, i) ==
    \/ i + 4 <= Len(text) /\ SubSeq(text, i, i + 4) = <<"&", "a", "m", "p", ";">>
    \/ i + 3 <= Len(text) /\ SubSeq(text, i, i + 3) = <<"&", "l", "t", ";">>
    \/ i + 3 <= Len(text) /\ SubSeq(text, i, i + 3) = <<"&", "g", "t", ";">>

NoRawMarkup(text) ==
    \A i \in DOMAIN text :
        /\ text[i] \notin {"<", ">"}
        /\ text[i] = "&" => IsEntityAt(text, i)

C5_FreeTextEscaped ==
    renders > 0 =>
        /\ NoRawMarkup(output.title)
        /\ NoRawMarkup(output.heading.title)
        /\ NoRawMarkup(output.heading.description)
        /\ \A i \in DOMAIN Rows :
              /\ NoRawMarkup(Rows[i].desc)
              /\ Rows[i].tmpl = "REPORT_TEST_WITH_OUTPUT_TMPL"
                    => NoRawMarkup(Rows[i].script.output)

(***************************************************************************)
(* C6. In the document, the detail row of the case with id C of the suite  *)
(* at position S is tagged pt S . C if the case is a SUCCESS and ft S . C  *)
(* if it is a FAILURE or an ERROR; a suite has exactly one detail row for  *)
(* each case, in list order, after its summary row.                        *)
(***************************************************************************)
C6_DetailRowTags ==
    renders > 0 =>
        /\ Len(Rows) = Offset(Len(Stored) + 1)
        /\ \A S \in DOMAIN Stored :
              /\ Rows[Offset(S) + 1].tmpl = "REPORT_CLASS_TMPL"
              /\ \A k \in DOMAIN CasesOf(Stored[S]) :
                    LET c == CasesOf(Stored[S])[k]
                        row == Rows[Offset(S) + 1 + k]
                        tail == Str(S) \o <<".">> \o Str(c.tid)
                    IN /\ row.tmpl = "REPORT_TEST_WITH_OUTPUT_TMPL"
                       /\ c.CaseStatus = "SUCCESS" => row.tid = <<"p", "t">> \o tail
                       /\ c.CaseStatus \in {"FAILURE", "ERROR"}
                             => row.tid = <<"f", "t">> \o tail

\* The second stored suite has the cases (SUCCESS, SUCCESS, FAILURE): its
\* rows are tagged pt2.1, pt2.2, ft2.3.
C6_Witness ==
    /\ renders > 0
    /\ Len(Stored) = 2
    /\ StatusesOf(CasesOf(Stored[2])) = <<"SUCCESS", "SUCCESS", "FAILURE">>
    /\ Len(Rows) = 8
    /\ Rows[6].tid = <<"p", "t", "2", ".", "1">>
    /\ Rows[7].tid = <<"p", "t", "2", ".", "2">>
    /\ Rows[8].tid = <<"f", "t", "2", ".", "3">>

(***************************************************************************)
(* C7. When the output directory is not the package directory,             *)
(* generateReport ends without an exception and leaves the css and the js  *)
(* directory beside the output with the content of the package's.          *)
(***************************************************************************)
C7_AssetsCopied ==
    raised.dir # PackageDir =>
        /\ raised.err = NoError
        /\ assets.css = Canonical
        /\ assets.js = Canonical

(***************************************************************************)
(* C8. generateReport leaves the TestResult as it was: the counters, and   *)
(* every stored suite's fields (its id among them) and case list, have the *)
(* values they had before the call.                                        *)
(***************************************************************************)
C8_RenderKeepsResult ==
    [][renders' > renders => ResultView(result, heap)' = ResultView(result, heap)]_vars

\* A rendered TestResult of two stored suites with cases.
C8_Witness ==
    /\ renders > 0
    /\ Len(Stored) = 2
    /\ Stored[1].sid = 1 /\ Stored[2].sid = 2
    /\ Len(CasesOf(Stored[2])) > 0

(***************************************************************************)
(* C9. Two generateReport calls in succession, with no add between them,   *)
(* produce the same document.                                              *)
(***************************************************************************)
C9_RenderDeterministic ==
    [][(renders > 0 /\ renders' > renders) => output' = output]_vars

\* The second of two calls in succession, on two stored suites with cases.
C9_Witness ==
    /\ renders = 2
    /\ Len(Stored) = 2
    /\ Len(CasesOf(Stored[2])) > 0

(***************************************************************************)
(* C10. The status attribute of the heading is, in the order passed,       *)
(* failed, errored, one "<word> N" for each counter N of the TestResult    *)
(* that is not zero, separated by single spaces, and "none" when all three *)
(* are zero.                                                               *)
(***************************************************************************)
SummaryPart(word, n) == IF n = 0 THEN <<>> ELSE <<" ">> \o word \o <<" ">> \o Str(n)

C10_StatusSummary ==
    renders > 0 =>
        LET parts == SummaryPart(<<"passed">>, result.success_count)
                     \o SummaryPart(<<"failed">>, result.failure_count)
                     \o SummaryPart(<<"errored">>, result.error_count)
            attr == output.heading.parameters[3]
        IN /\ attr.name = AttrStatus
           /\ attr.value = IF parts = <<>> THEN <<"n", "o", "n", "e">> ELSE Tail(parts)

\* Two passed, none failed, one errored.
C10_Witness ==
    /\ renders > 0
    /\ result.success_count = 2 /\ result.failure_count = 0 /\ result.error_count = 1
    /\ output.heading.parameters[3].value = <<"passed", " ", "2", " ", "errored", " ", "1">>

(***************************************************************************)
(* C11. The summary row of every rendered suite has the class errorClass   *)
(* if the suite's ErrorCaseCount > 0, else failClass if its                *)
(* FailedCaseCount > 0, else passClass; its total is pass + fail + error,  *)
(* and its three counts are the suite's counters.                          *)
(***************************************************************************)
C11_SummaryRow ==
    renders > 0 =>
        \A S \in DOMAIN Stored :
            LET row == Rows[Offset(S) + 1]
                suite == Stored[S]
            IN /\ suite.ErrorCaseCount > 0 => row.style = "errorClass"
               /\ (suite.ErrorCaseCount = 0 /\ suite.FailedCaseCount > 0)
                     => row.style = "failClass"
               /\ (suite.ErrorCaseCount = 0 /\ suite.FailedCaseCount = 0)
                     => row.style = "passClass"
               /\ row.Pass = Str(suite.PassedCaseCount)
               /\ row.fail = Str(suite.FailedCaseCount)
               /\ row.error = Str(suite.ErrorCaseCount)
               /\ row.count = Str(suite.PassedCaseCount + suite.FailedCaseCount
                                  + suite.ErrorCaseCount)

\* A suite of the cases (SUCCESS, SUCCESS, FAILURE), stored and rendered:
\* total 3, pass 2, fail 1, error 0, failClass.
C11_Witness ==
    /\ renders > 0
    /\ Len(Stored) = 1
    /\ StatusesOf(CasesOf(Stored[1])) = <<"SUCCESS", "SUCCESS", "FAILURE">>
    /\ Rows[1].style = "failClass"
    /\ Rows[1].count = <<"3">> /\ Rows[1].Pass = <<"2">>
    /\ Rows[1].fail = <<"1">> /\ Rows[1].error = <<"0">>

(***************************************************************************)
(* C12. addTestCase(c) stores a copy of c: the call leaves the caller's    *)
(* object c as it was (the id is written on the copy alone), the stored    *)
(* case has the fields of c and the next id, and a later setCaseName,      *)
(* setCaseStatus or setErrorStackTrace on c changes no stored case and no  *)
(* counter of the suite.                                                   *)
(***************************************************************************)
SameFields(c, d) ==
    /\ c.CaseName = d.CaseName
    /\ c.CaseStatus = d.CaseStatus
    /\ c.CaseDescription = d.CaseDescription
    /\ c.ErrorStackTrace = d.ErrorStackTrace

C12_CaseCopied ==
    [][/\ TotalCases' = TotalCases => (heap' = heap /\ suites' = suites)
       /\ TotalCases' > TotalCases =>
             /\ SameFields(caller'.TestCase, caller.TestCase)
             /\ ToString(caller'.TestCase.tid) = ToString(caller.TestCase.tid)
             /\ \A l \in DOMAIN heap :
                   /\ SubSeq(heap'[l], 1, Len(heap[l])) = heap[l]
                   /\ Len(heap'[l]) > Len(heap[l]) =>
                         /\ SameFields(heap'[l][Len(heap'[l])], caller.TestCase)
                         /\ heap'[l][Len(heap'[l])].tid = Len(heap'[l])]_vars

\* A case added as a SUCCESS named t with an empty trace, whose object the
\* caller then renamed, set to FAILURE and gave a trace: the stored case
\* and the counters are those of the add, the caller's object has no id.
C12_Witness ==
    /\ Len(heap["s1"]) = 1
    /\ heap["s1"][1].CaseStatus = "SUCCESS"
    /\ heap["s1"][1].CaseName = PlainName
    /\ heap["s1"][1].ErrorStackTrace = EmptyStr
    /\ suites["s1"].PassedCaseCount = 1 /\ suites["s1"].FailedCaseCount = 0
    /\ caller.TestCase.CaseStatus = "FAILURE"
    /\ caller.TestCase.CaseName = <<"u">>
    /\ caller.TestCase.ErrorStackTrace = <<"e">>
    /\ ToString(caller.TestCase.tid) = ToString(EmptyStr)

(***************************************************************************)
(* C13. In the document, the total of every summary row (the count its     *)
(* link hands to showClassDetail with the group id c S) equals the number  *)
(* of detail rows that follow it, and the k-th of these rows is tagged     *)
(* pt S . k or ft S . k.                                                   *)
(***************************************************************************)
\* The number of detail rows of rows from index i on, up to the next
\* summary row.
RECURSIVE DetailRowsFrom(_, _)
DetailRowsFrom(rows, i) ==
    IF i > Len(rows) \/ rows[i].tmpl = "REPORT_CLASS_TMPL" THEN 0
    ELSE 1 + DetailRowsFrom(rows, i + 1)

C13_CountMatchesDetailRows ==
    renders > 0 =>
        \A i \in DOMAIN Rows :
            Rows[i].tmpl = "REPORT_CLASS_TMPL" =>
                LET n == DetailRowsFrom(Rows, i + 1)
                    S == Tail(Rows[i].cid)
                IN /\ Rows[i].count = Str(n)
                   /\ \A k \in 1 .. n :
                         Rows[i + k].tid \in {<<"p", "t">> \o S \o <<".">> \o Str(k),
                                              <<"f", "t">> \o S \o <<".">> \o Str(k)}

====
